---- MODULE Spec2Model ----
(***************************************************************************)
(* LitePlugin (tensorboard_lite_plugin/lite_plugin.py): the activity       *)
(* predicate is_active and the /script and /convert request handlers.      *)
(*                                                                         *)
(* Text is a sequence of tokens (each token a TLA+ string), so that         *)
(* concatenation, "starts with" and "ends with" are computed.  A path is    *)
(* text whose separator is the token "/".                                   *)
(***************************************************************************)
EXTENDS Integers, Sequences, FiniteSets, TLC

VARIABLES
  logdir,         \* self._logdir
  is_supported,   \* lite_backend.is_supported
  multiplexer,    \* self._multiplexer
  dirExists,      \* whether <logdir>/tflite_output exists on disk
  makedirsCalls,  \* calls of lite_backend.safe_makedirs made so far
  execCalls,      \* calls of lite_backend.execute made so far
  pc,             \* position of the /convert request in flight, or "idle"
  handler,        \* the handler that ran last (or is running)
  data,           \* the request's form
  local,          \* local variables of the /convert request in flight
  synth,          \* arguments the request passed to script_from_saved_model
  resp,           \* outcome of the last request that ended
  ret             \* outcome of the last is_active() call

vars == <<logdir, is_supported, multiplexer, dirExists, makedirsCalls,
          execCalls, pc, handler, data, local, synth, resp, ret>>

-----------------------------------------------------------------------------
(* Bounds *)

\* /convert requests admitted in one behaviour
MaxCalls == 2
\* longest input_arrays / output_arrays list a request carries
MaxArrayLen == 1

-----------------------------------------------------------------------------
(* Text and paths *)

SEP == "/"

StartsWith(s, t) == Len(s) >= Len(t) /\ SubSeq(s, 1, Len(t)) = t
EndsWith(s, t) == Len(s) >= Len(t) /\ SubSeq(s, Len(s) - Len(t) + 1, Len(s)) = t
Contains(s, t) ==
  \E i \in 1..(Len(s) - Len(t) + 1) : SubSeq(s, i, i + Len(t) - 1) = t

\* os.path.join(a, b) on POSIX: an absolute b replaces a; otherwise b is
\* appended, after a separator unless a is empty or already ends with one.
path_join(a, b) ==
  IF StartsWith(b, <<SEP>>) THEN b
  ELSE IF a = <<>> \/ EndsWith(a, <<SEP>>) THEN a \o b
  ELSE a \o <<SEP>> \o b

tflite_output_dir(ld) == path_join(ld, <<"tflite_output">>)
tflite_output_file(ld) == path_join(tflite_output_dir(ld), <<"model.tflite">>)

-----------------------------------------------------------------------------
(* JSON values of the request and Python truthiness *)

\* A JSON value: null, a string (text) or an array of names (one token each).
\* Absent is the marker of a key the options object does not have.
Null == [t |-> "null", v |-> <<>>]
Absent == [t |-> "absent", v |-> <<>>]
Str(s) == [t |-> "str", v |-> s]
Arr(a) == [t |-> "arr", v |-> a]

\* Python: bool(x) for None, a str or a list
Truthy(x) == x.t \in {"str", "arr"} /\ x.v # <<>>
\* Python: x or d
Or(x, d) == IF Truthy(x) THEN x ELSE d

\* options[key]: KeyError when the object lacks the key
Subscript(options, key) ==
  IF options[key].t = "absent"
    THEN [raised |-> "KeyError", value |-> Null]
    ELSE [raised |-> "", value |-> options[key]]

-----------------------------------------------------------------------------
(* Requests *)

TensorNames == {"x"}

RECURSIVE SeqsUpTo(_, _)
SeqsUpTo(S, n) ==
  IF n = 0 THEN {<<>>}
  ELSE LET shorter == SeqsUpTo(S, n - 1)
       IN shorter \cup {Append(s, e) : s \in {q \in shorter : Len(q) = n - 1}, e \in S}

SavedModelValues == {Absent, Null, Str(<<>>), Str(<<"model">>)}
ArrayValues == {Absent, Null} \cup {Arr(a) : a \in SeqsUpTo(TensorNames, MaxArrayLen)}

Options ==
  [saved_model : SavedModelValues, input_arrays : ArrayValues,
   output_arrays : ArrayValues]
NoOptions ==
  [saved_model |-> Absent, input_arrays |-> Absent, output_arrays |-> Absent]

\* The request form: the field "data" is missing, is not JSON, is JSON but no
\* object, or is a JSON object (the options).
Forms ==
  {[form |-> f, options |-> NoOptions] : f \in {"nofield", "badjson", "nonobject"}}
    \cup {[form |-> "object", options |-> o] : o \in Options}
NoForm == [form |-> "none", options |-> NoOptions]

\* request.form["data"], then json.loads: what each raises
json_loads_form(d) ==
  CASE d.form = "nofield" -> [raised |-> "BadRequestKeyError", options |-> NoOptions]
    [] d.form = "badjson" -> [raised |-> "ValueError", options |-> NoOptions]
    [] OTHER -> [raised |-> "", options |-> d.options]

-----------------------------------------------------------------------------
(* lite_backend, as far as LitePlugin uses it *)

\* script_from_saved_model: the script as text that names its four arguments
script_from_saved_model(saved_model_dir, tflite_file, input_arrays, output_arrays) ==
  <<"tflite_convert", "--saved_model_dir=">> \o saved_model_dir
    \o <<"--output_file=">> \o tflite_file
    \o <<"--input_arrays=">> \o input_arrays
    \o <<"--output_arrays=">> \o output_arrays

\* Process output: text, or bytes of which the token "<0xFF>" is not UTF-8
BadByte == "<0xFF>"
Replacement == "<U+FFFD>"
Outputs ==
  {[t |-> "str", v |-> <<"done">>], [t |-> "bytes", v |-> <<"trace", BadByte>>]}
NoOutput == [t |-> "str", v |-> <<>>]

\* to_unicode: text as it is, bytes decoded with replacement
to_unicode(x) ==
  IF x.t = "str" THEN x.v
  ELSE [i \in 1..Len(x.v) |-> IF x.v[i] = BadByte THEN Replacement ELSE x.v[i]]

\* what execute may return
ExecResults == [success : BOOLEAN, stdout : Outputs, stderr : Outputs]

\* what get_suggestion may return
Suggestions == {<<>>, <<"Try", "select", "ops">>}
TipsLinks == {<<>>, <<"https:", SEP, SEP, "github.com", SEP, "issues">>}

-----------------------------------------------------------------------------
(* LitePlugin._generate_script *)

NoArgs ==
  [called |-> FALSE, saved_model_dir |-> <<>>, tflite_file |-> <<>>,
   input_arrays |-> <<>>, output_arrays |-> <<>>]

Raise(e) == [raised |-> e, args |-> NoArgs, script |-> <<>>]

generate_script(ld, d, tflite_file) ==
  LET parsed == json_loads_form(d)
      options == parsed.options
      sm == Subscript(options, "saved_model")
      ia == Subscript(options, "input_arrays")
      oa == Subscript(options, "output_arrays")
  IN  IF parsed.raised # "" THEN Raise(parsed.raised)
      ELSE IF d.form = "nonobject" THEN Raise("TypeError")
      ELSE IF sm.raised # "" THEN Raise(sm.raised)
      ELSE IF ia.raised # "" THEN Raise(ia.raised)
      ELSE IF oa.raised # "" THEN Raise(oa.raised)
      ELSE
        LET saved_model_dir == path_join(ld, Or(sm.value, Str(<<>>)).v)
            input_arrays == Or(ia.value, Arr(<<>>)).v
            output_arrays == Or(oa.value, Arr(<<>>)).v
        IN  [raised |-> "",
             args |-> [called |-> TRUE, saved_model_dir |-> saved_model_dir,
                       tflite_file |-> tflite_file,
                       input_arrays |-> input_arrays,
                       output_arrays |-> output_arrays],
             script |-> script_from_saved_model(saved_model_dir, tflite_file,
                                                input_arrays, output_arrays)]

-----------------------------------------------------------------------------
(* Responses *)

NoPayload == [result |-> "none", tabs |-> <<>>]

NoResponse ==
  [status |-> "none", error |-> "", content_type |-> "", script |-> <<>>,
   payload |-> NoPayload]
Pending == [NoResponse EXCEPT !.status = "pending"]
\* an exception leaves the handler: the host answers with an error
Failed(e) == [NoResponse EXCEPT !.status = "raised", !.error = e]
\* http_util.Respond(request, json.dumps(script), "application/json")
RespondScript(s) ==
  [NoResponse EXCEPT !.status = "ok", !.content_type = "application/json",
                     !.script = s]
\* http_util.Respond(request, json.dumps(result), "application/json")
RespondResult(r) ==
  [NoResponse EXCEPT !.status = "ok", !.content_type = "application/json",
                     !.payload = r]

-----------------------------------------------------------------------------
(* LitePlugin.convert: the result built from what execute returned *)

SuccessText == "Succuss: The model has been converted to tflite file.\n"

CommandTab(script) ==
  [name |-> "command", content |-> <<[type |-> "code", body |-> script]>>]

\* the tabs in the other order
shape_success_command_first(stdout, script, tflite_file) ==
  [result |-> "success",
   tabs |-> << CommandTab(script),
               [name |-> "summary",
                content |-> << [type |-> "text",
                                body |-> <<SuccessText>> \o to_unicode(stdout)],
                               [type |-> "code", body |-> tflite_file] >>] >>]

shape_success(stdout, script, tflite_file) ==
  [result |-> "success",
   tabs |-> << [name |-> "summary",
                content |-> << [type |-> "text",
                                body |-> <<SuccessText>> \o to_unicode(stdout)],
                               [type |-> "code", body |-> tflite_file] >>],
               CommandTab(script) >>]

\* the suggestion block appended without looking at the suggestion
shape_failed_always_suggests(stderr, suggestion, tips_link, script) ==
  LET error_block ==
        [type |-> "code", title |-> "error", body |-> to_unicode(stderr)]
      suggestion_block ==
        [type |-> "text", title |-> "Suggestion", body |-> suggestion]
      tabs == << [name |-> "error", content |-> <<error_block, suggestion_block>>],
                 CommandTab(script) >>
  IN  IF tips_link # <<>>
        THEN [result |-> "failed", tabs |-> tabs,
              addons |-> << [type |-> "link", title |-> "Create a github issue",
                             body |-> tips_link] >>]
        ELSE [result |-> "failed", tabs |-> tabs]

\* the addon attached when there is a suggestion, not when there is a link
shape_failed_addon_by_suggestion(stderr, suggestion, tips_link, script) ==
  LET error_block ==
        [type |-> "code", title |-> "error", body |-> to_unicode(stderr)]
      suggestion_block ==
        [type |-> "text", title |-> "Suggestion", body |-> suggestion]
      error_tab ==
        [name |-> "error",
         content |-> IF suggestion # <<>>
                       THEN <<error_block, suggestion_block>>
                       ELSE <<error_block>>]
      tabs == <<error_tab, CommandTab(script)>>
  IN  IF suggestion # <<>>
        THEN [result |-> "failed", tabs |-> tabs,
              addons |-> << [type |-> "link", title |-> "Create a github issue",
                             body |-> tips_link] >>]
        ELSE [result |-> "failed", tabs |-> tabs]

shape_failed(stderr, suggestion, tips_link, script) ==
  LET error_block ==
        [type |-> "code", title |-> "error", body |-> to_unicode(stderr)]
      suggestion_block ==
        [type |-> "text", title |-> "Suggestion", body |-> suggestion]
      error_tab ==
        [name |-> "error",
         content |-> IF suggestion # <<>>
                       THEN <<error_block, suggestion_block>>
                       ELSE <<error_block>>]
      tabs == <<error_tab, CommandTab(script)>>
  IN  IF tips_link # <<>>
        THEN [result |-> "failed", tabs |-> tabs,
              addons |-> << [type |-> "link", title |-> "Create a github issue",
                             body |-> tips_link] >>]
        ELSE [result |-> "failed", tabs |-> tabs]

shape_result(success, stdout, stderr, suggestion, tips_link, script, tflite_file) ==
  IF success
    THEN shape_success(stdout, script, tflite_file)
    ELSE shape_failed(stderr, suggestion, tips_link, script)

-----------------------------------------------------------------------------
(* LitePlugin.is_active *)

RunNames == {"", "train"}
\* a run's metadata: the key pec.GRAPH is missing, or maps to False or True
RunData == {"missing", "False", "True"}
NoRun == "norun"
\* a multiplexer, by what Runs() returns: every run name is absent or has data
Multiplexers ==
  {[present |-> TRUE, runs |-> r] : r \in [RunNames -> RunData \cup {NoRun}]}
NoMultiplexer == [present |-> FALSE, runs |-> [n \in RunNames |-> NoRun]]

\* self._multiplexer.Runs().items()
RunItems(m) == {<<n, m.runs[n]>> : n \in {k \in RunNames : m.runs[k] # NoRun}}
\* bool(data.get(pec.GRAPH))
HasGraph(run_data) == run_data = "True"

\* [name for (name, data) in Runs().items() if data.get(pec.GRAPH)]
run_names(m) == {item[1] : item \in {i \in RunItems(m) : HasGraph(i[2])}}

\* any(names): some name is a non-empty string
any(names) == \E n \in names : n # ""

\* the platform check left out
is_active_value_ignoring_support(supported, m) ==
  IF ~m.present THEN FALSE
  ELSE any(run_names(m))

is_active_value(supported, m) ==
  IF ~supported THEN FALSE
  ELSE IF ~m.present THEN FALSE
  ELSE any(run_names(m))

NoReturn == [called |-> FALSE, value |-> FALSE]

-----------------------------------------------------------------------------
(* State *)

LogDirs == {<<SEP, "logs">>, <<SEP, "logs", SEP>>}

NoLocal ==
  [tflite_file |-> <<>>, script |-> <<>>, success |-> FALSE,
   stdout |-> NoOutput, stderr |-> NoOutput,
   suggestion |-> <<>>, tips_link |-> <<>>,
   executed |-> <<>>]   \* the scripts this request passed to execute

\* LitePlugin.__init__ with any context, on a log directory without output
InitAny ==
  /\ logdir \in LogDirs
  /\ is_supported \in BOOLEAN
  /\ multiplexer \in Multiplexers \cup {NoMultiplexer}
  /\ dirExists = FALSE
  /\ makedirsCalls = 0
  /\ execCalls = 0
  /\ pc = "idle"
  /\ handler = "none"
  /\ data = NoForm
  /\ local = NoLocal
  /\ synth = NoArgs
  /\ resp = NoResponse
  /\ ret = NoReturn

config == <<logdir, is_supported, multiplexer>>

is_active ==
  /\ ret' = [called |-> TRUE, value |-> is_active_value(is_supported, multiplexer)]
  /\ UNCHANGED <<config, dirExists, makedirsCalls, execCalls, pc, handler,
                 data, local, synth, resp>>

\* /script sharing /convert's preparation of the output directory
script_makedirs(d) ==
  /\ pc = "idle"
  /\ LET g == generate_script(logdir, d, tflite_output_file(logdir))
     IN  /\ synth' = g.args
         /\ resp' = IF g.raised # "" THEN Failed(g.raised)
                    ELSE RespondScript(g.script)
  /\ dirExists' = TRUE
  /\ makedirsCalls' = makedirsCalls + 1
  /\ handler' = "script"
  /\ data' = d
  /\ local' = NoLocal
  /\ UNCHANGED <<config, execCalls, pc, ret>>

\* /script
script(d) ==
  /\ pc = "idle"
  /\ LET g == generate_script(logdir, d, tflite_output_file(logdir))
     IN  /\ synth' = g.args
         /\ resp' = IF g.raised # "" THEN Failed(g.raised)
                    ELSE RespondScript(g.script)
  /\ handler' = "script"
  /\ data' = d
  /\ local' = NoLocal
  /\ UNCHANGED <<config, dirExists, makedirsCalls, execCalls, pc, ret>>

\* /convert with safe_makedirs moved ahead of _generate_script
convert_makedirs_first(d) ==
  /\ pc = "idle"
  /\ execCalls < MaxCalls
  /\ dirExists' = TRUE
  /\ makedirsCalls' = makedirsCalls + 1
  /\ LET tflite_file == tflite_output_file(logdir)
         g == generate_script(logdir, d, tflite_file)
     IN  /\ synth' = g.args
         /\ IF g.raised # ""
              THEN /\ resp' = Failed(g.raised)
                   /\ local' = NoLocal
                   /\ pc' = "idle"
              ELSE /\ resp' = Pending
                   /\ local' = [NoLocal EXCEPT !.tflite_file = tflite_file,
                                               !.script = g.script]
                   /\ pc' = "made"
  /\ handler' = "convert"
  /\ data' = d
  /\ UNCHANGED <<config, execCalls, ret>>

\* /convert, lines 126-127: tflite_file, script
convert_generate(d) ==
  /\ pc = "idle"
  /\ execCalls < MaxCalls
  /\ LET tflite_file == tflite_output_file(logdir)
         g == generate_script(logdir, d, tflite_file)
     IN  /\ synth' = g.args
         /\ IF g.raised # ""
              THEN /\ resp' = Failed(g.raised)
                   /\ local' = NoLocal
                   /\ pc' = "idle"
              ELSE /\ resp' = Pending
                   /\ local' = [NoLocal EXCEPT !.tflite_file = tflite_file,
                                               !.script = g.script]
                   /\ pc' = "generated"
  /\ handler' = "convert"
  /\ data' = d
  /\ UNCHANGED <<config, dirExists, makedirsCalls, execCalls, ret>>

\* /convert, line 128: lite_backend.safe_makedirs(self._tflite_output_dir)
convert_makedirs ==
  /\ pc = "generated"
  /\ dirExists' = TRUE
  /\ makedirsCalls' = makedirsCalls + 1
  /\ pc' = "made"
  /\ UNCHANGED <<config, execCalls, handler, data, local, synth, resp, ret>>

\* /convert, line 130: success, stdout, stderr = lite_backend.execute(script)
convert_execute(r) ==
  /\ pc = "made"
  /\ execCalls' = execCalls + 1
  /\ local' = [local EXCEPT !.success = r.success, !.stdout = r.stdout,
                            !.stderr = r.stderr,
                            !.executed = Append(@, local.script)]
  /\ pc' = "executed"
  /\ UNCHANGED <<config, dirExists, makedirsCalls, handler, data, synth, resp, ret>>

\* /convert, lines 131-192: get_suggestion on failure, the result, the response
convert_respond(suggestion, tips_link) ==
  /\ pc = "executed"
  /\ local.success => suggestion = <<>> /\ tips_link = <<>>
  /\ local' = [local EXCEPT !.suggestion = suggestion, !.tips_link = tips_link]
  /\ resp' = RespondResult(shape_result(local.success, local.stdout, local.stderr,
                                        suggestion, tips_link, local.script,
                                        local.tflite_file))
  /\ pc' = "idle"
  /\ UNCHANGED <<config, dirExists, makedirsCalls, execCalls, handler, data,
                 synth, ret>>

Next ==
  \/ is_active
  \/ \E d \in Forms : script(d)
  \/ \E d \in Forms : convert_generate(d)
  \/ convert_makedirs
  \/ \E r \in ExecResults : convert_execute(r)
  \/ \E s \in Suggestions, l \in TipsLinks : convert_respond(s, l)

\* The request handlers read neither is_supported nor the multiplexer: one
\* context stands for all.
Init ==
  /\ InitAny
  /\ is_supported
  /\ multiplexer = NoMultiplexer

Spec == Init /\ [][Next]_vars

\* is_active under every context
NextActive == is_active

SpecActive == InitAny /\ [][NextActive]_vars

-----------------------------------------------------------------------------
(* Properties *)

\* a /convert request that ran to its end, and how execute answered it
ConvertDone == handler = "convert" /\ pc = "idle" /\ synth.called
ConvertSucceeded == ConvertDone /\ local.success
ConvertFailed == ConvertDone /\ ~local.success

\* <logdir>/tflite_output/model.tflite, written out
WithSep(ld) == IF ld = <<>> \/ ld[Len(ld)] = SEP THEN ld ELSE ld \o <<SEP>>
DestinationFile(ld) == WithSep(ld) \o <<"tflite_output", SEP, "model.tflite">>

\* C1: a /convert request whose options parse and whose execution succeeds is
\* answered with result "success" and exactly the tabs "summary", "command" in
\* that order; the summary tab holds a text block containing the decoded stdout
\* and then a code block with the destination file; the command tab holds one
\* code block.
C1_SuccessPayload ==
  ConvertSucceeded =>
    /\ resp.status = "ok"
    /\ LET p == resp.payload
       IN  /\ p.result = "success"
           /\ Len(p.tabs) = 2
           /\ p.tabs[1].name = "summary"
           /\ p.tabs[2].name = "command"
           /\ Len(p.tabs[1].content) = 2
           /\ p.tabs[1].content[1].type = "text"
           /\ Contains(p.tabs[1].content[1].body, to_unicode(local.stdout))
           /\ BadByte \notin {p.tabs[1].content[1].body[i] :
                               i \in 1..Len(p.tabs[1].content[1].body)}
           /\ p.tabs[1].content[2].type = "code"
           /\ p.tabs[1].content[2].body = DestinationFile(logdir)
           /\ Len(p.tabs[2].content) = 1
           /\ p.tabs[2].content[1].type = "code"

C1_Witness ==
  /\ ConvertSucceeded
  /\ local.stdout.t = "bytes"
  /\ resp.payload.result = "success"
  /\ logdir = <<SEP, "logs">>

\* C2: a /convert request whose options parse and whose execution fails is
\* answered normally with result "failed" and exactly the tabs "error",
\* "command" in that order; the error tab starts with a code block titled
\* "error" holding the decoded stderr, followed by a text block titled
\* "Suggestion" exactly when the suggestion is not empty, and by nothing else.
C2_FailedPayload ==
  ConvertFailed =>
    /\ resp.status = "ok"
    /\ LET p == resp.payload
           content == p.tabs[1].content
       IN  /\ p.result = "failed"
           /\ Len(p.tabs) = 2
           /\ p.tabs[1].name = "error"
           /\ p.tabs[2].name = "command"
           /\ Len(content) = IF local.suggestion # <<>> THEN 2 ELSE 1
           /\ content[1].type = "code"
           /\ content[1].title = "error"
           /\ content[1].body = to_unicode(local.stderr)
           /\ local.suggestion # <<>> =>
                /\ content[2].type = "text"
                /\ content[2].title = "Suggestion"
                /\ content[2].body = local.suggestion

C2_Witness ==
  /\ ConvertFailed
  /\ local.suggestion # <<>>
  /\ local.tips_link = <<>>
  /\ local.stderr.t = "bytes"
  /\ Len(resp.payload.tabs[1].content) = 2
  /\ resp.payload.tabs[2].name = "command"

\* C3: the payload of a /convert response has the field "addons" exactly when
\* the execution failed and the tips link is not empty, and the field then is
\* one link addon titled "Create a github issue" whose body is the tips link.
C3_AddonsIffTipsLink ==
  ConvertDone =>
    /\ resp.status = "ok"
    /\ LET p == resp.payload
       IN  /\ "addons" \in DOMAIN p <=> (~local.success /\ local.tips_link # <<>>)
           /\ "addons" \in DOMAIN p =>
                p.addons = << [type |-> "link", title |-> "Create a github issue",
                               body |-> local.tips_link] >>

C3_Witness ==
  /\ ConvertFailed
  /\ local.suggestion = <<>>
  /\ local.tips_link # <<>>
  /\ "addons" \in DOMAIN resp.payload

\* C4: the output directory is created and execute is invoked only by steps of
\* a /convert request; a /script request, whatever its form, does neither.
C4_ScriptHasNoEffects ==
  [][ (dirExists' # dirExists \/ makedirsCalls' # makedirsCalls
         \/ execCalls' # execCalls)
        => (handler = "convert" /\ handler' = "convert"
              /\ pc \in {"generated", "made"}) ]_vars

C4_Witness ==
  /\ handler = "script"
  /\ resp.status = "ok"
  /\ ~dirExists
  /\ makedirsCalls = 0
  /\ execCalls = 0

\* a /script or /convert request that has ended, on a JSON object
RequestEnded == handler \in {"script", "convert"} /\ pc = "idle"
OnObject == RequestEnded /\ data.form = "object"

\* the options with every missing or null array replaced by the empty array
EmptyIfMissing(x) == IF x.t \in {"absent", "null"} THEN Arr(<<>>) ELSE x
WithEmptyArrays(d) ==
  [d EXCEPT !.options.input_arrays = EmptyIfMissing(@),
            !.options.output_arrays = EmptyIfMissing(@)]

\* what the handler answers to form d, given what execute and get_suggestion
\* returned to the request
Answer(d) ==
  LET g == generate_script(logdir, d, tflite_output_file(logdir))
  IN  IF g.raised # "" THEN Failed(g.raised)
      ELSE IF handler = "script" THEN RespondScript(g.script)
      ELSE RespondResult(shape_result(local.success, local.stdout, local.stderr,
                                      local.suggestion, local.tips_link,
                                      g.script, tflite_output_file(logdir)))

\* C5: options whose input_arrays or output_arrays is missing or null are
\* handled as the same options with an empty array there: no error, the same
\* arguments to script_from_saved_model, the same response.
C5_MissingArraysAsEmpty ==
  (/\ OnObject
   /\ data.options.saved_model.t # "absent"
   /\ \E k \in {"input_arrays", "output_arrays"} :
        data.options[k].t \in {"absent", "null"})
    => /\ resp.status = "ok"
       /\ synth = generate_script(logdir, WithEmptyArrays(data),
                                  tflite_output_file(logdir)).args
       /\ resp = Answer(WithEmptyArrays(data))

\* C6: options whose saved_model is "", null or missing pass the join of the
\* log directory with the empty string to script_from_saved_model as the
\* saved-model directory, and the request does not fail.
C6_EmptySavedModelIsLogdir ==
  (/\ OnObject
   /\ data.options.saved_model \in {Absent, Null, Str(<<>>)}
   /\ data.options.input_arrays.t # "absent"
   /\ data.options.output_arrays.t # "absent")
    => /\ resp.status = "ok"
       /\ synth.called
       /\ synth.saved_model_dir = path_join(logdir, <<>>)

\* some recorded run has a graph
SomeRunHasGraph == \E n \in RunNames : multiplexer.runs[n] = "True"

\* C7: is_active() returns true only if the backend is supported, a multiplexer
\* is configured and some run has a graph; it returns false whenever the
\* backend is unsupported; and it leaves the directory, the executor and the
\* responses as they were.
C7_ActiveOnlyIf ==
  /\ ret.called =>
       /\ ret.value => (is_supported /\ multiplexer.present /\ SomeRunHasGraph)
       /\ ~is_supported => ~ret.value
  /\ ~dirExists /\ makedirsCalls = 0 /\ execCalls = 0
  /\ resp = NoResponse /\ pc = "idle"

C7_Witness ==
  /\ ret.called
  /\ ~ret.value
  /\ ~is_supported
  /\ multiplexer.present
  /\ multiplexer.runs["train"] = "True"

\* C8: with the backend supported and a multiplexer configured, is_active()
\* returns true exactly when some run has a graph, whatever the runs are named.
C8_ActiveIffSomeGraph ==
  (ret.called /\ is_supported /\ multiplexer.present)
    => (ret.value <=> SomeRunHasGraph)

\* C9: /convert generates the script before it ensures the output directory,
\* and ensures the directory before it executes; a /convert request whose
\* script generation raises ends in an error without creating the directory,
\* invoking execute or producing a payload.
C9_ConvertOrder ==
  /\ [](/\ pc \in {"generated", "made", "executed"} =>
             (handler = "convert" /\ synth.called /\ local.script # <<>>)
        /\ pc = "generated" => (makedirsCalls = execCalls /\ local.executed = <<>>)
        /\ pc = "made" => (makedirsCalls = execCalls + 1 /\ dirExists
                             /\ local.executed = <<>>)
        /\ pc = "executed" => (makedirsCalls = execCalls /\ dirExists
                                 /\ local.executed = <<local.script>>))
  /\ [][ (handler' = "convert" /\ resp'.status = "raised")
           => /\ UNCHANGED <<dirExists, makedirsCalls, execCalls>>
              /\ pc' = "idle"
              /\ local'.executed = <<>>
              /\ resp'.payload = NoPayload ]_vars

C9_Witness ==
  /\ handler = "convert"
  /\ data.form = "badjson"
  /\ resp.status = "raised"
  /\ ~dirExists
  /\ execCalls = 0

\* the body of the single code block of the last tab, when that tab is "command"
CommandBody(p) ==
  LET last == p.tabs[Len(p.tabs)]
  IN  IF last.name = "command" /\ Len(last.content) = 1
           /\ last.content[1].type = "code"
        THEN last.content[1].body
        ELSE <<>>

\* C10: every /convert request whose options parse invokes execute exactly
\* once, and the code block of its trailing "command" tab holds the script
\* passed to execute, which is the script /script returns for the same form.
C10_ExecutedOnceWithScript ==
  (handler = "convert" /\ pc = "idle" /\ data.form = "object")
    => /\ Len(local.executed) = 1
       /\ resp.status = "ok"
       /\ Len(resp.payload.tabs) > 0
       /\ CommandBody(resp.payload) = local.executed[1]
       /\ local.executed[1]
            = generate_script(logdir, data, tflite_output_file(logdir)).script

====
